---- MODULE Spec2Model ----
(***************************************************************************)
(* Dual numbers (src/src/lib.rs): forward-mode automatic differentiation   *)
(* over a floating-point type F.                                           *)
(*                                                                         *)
(* The scalar type F is modelled as the extended rationals: a finite value *)
(* is a sign and a fraction in lowest terms (zero keeps its sign, as in    *)
(* IEEE 754), and there are the two infinities and NaN.  Arithmetic on     *)
(* finite values is exact (no rounding, no overflow); arithmetic on zero,  *)
(* infinity and NaN follows IEEE 754.                                      *)
(***************************************************************************)
EXTENDS Integers, Sequences, FiniteSets, TLC

VARIABLES x, y, xsrc, ysrc, z, op, out, v, stack, nodes

vars == <<x, y, xsrc, ysrc, z, op, out, v, stack, nodes>>

(***************************************************************************)
(* Bounds of the model.                                                    *)
(***************************************************************************)
\* integer scalars given to the constructors are -MaxNeg .. MaxInt
MaxInt == 4
MaxNeg == 1
\* seed points and constant coefficients of expressions are -MaxCoef .. MaxCoef
MaxCoef == 1
\* an expression has at most MaxNodes nodes and needs at most MaxStack operands
MaxNodes == 5
MaxStack == 2

(***************************************************************************)
(* The scalar type F.                                                      *)
(***************************************************************************)
RECURSIVE Gcd(_, _)
Gcd(a, b) == IF b = 0 THEN a ELSE Gcd(b, a % b)

Abs(i) == IF i < 0 THEN -i ELSE i

Sgn(i) == IF i < 0 THEN -1 ELSE 1

\* a finite value s * n / d, in lowest terms
Fin(s, n, d) ==
    LET g == Gcd(n, d)
    IN  [s |-> s, n |-> n \div g, d |-> d \div g, k |-> "fin"]

Inf(s) == [s |-> s, n |-> 0, d |-> 1, k |-> "inf"]

NaN == [s |-> 1, n |-> 0, d |-> 1, k |-> "nan"]

FromInt(i) == Fin(Sgn(i), Abs(i), 1)

NegZero == Fin(-1, 0, 1)

IsNaN(a) == a.k = "nan"

IsInf(a) == a.k = "inf"

IsFin(a) == a.k = "fin"

IsZeroF(a) == a.k = "fin" /\ a.n = 0

IsInt(a) == a.k = "fin" /\ a.d = 1

\* the integer an integral finite value stands for
IntOf(a) == a.s * a.n

\* F::zero(), F::one()
fzero == FromInt(0)

fone == FromInt(1)

\* unary minus of F: flips the sign bit
fneg(a) == IF IsNaN(a) THEN NaN ELSE [a EXCEPT !.s = -a.s]

\* a + b
fadd(a, b) ==
    IF IsNaN(a) \/ IsNaN(b) THEN NaN
    ELSE IF IsInf(a) /\ IsInf(b) THEN (IF a.s = b.s THEN a ELSE NaN)
    ELSE IF IsInf(a) THEN a
    ELSE IF IsInf(b) THEN b
    ELSE LET num == a.s * a.n * b.d + b.s * b.n * a.d
         IN  IF num = 0
             THEN (IF IsZeroF(a) /\ IsZeroF(b) /\ a.s = -1 /\ b.s = -1
                   THEN NegZero ELSE fzero)
             ELSE Fin(Sgn(num), Abs(num), a.d * b.d)

\* a - b
fsub(a, b) ==
    IF IsNaN(a) \/ IsNaN(b) THEN NaN
    ELSE IF IsInf(a) /\ IsInf(b) THEN (IF a.s # b.s THEN a ELSE NaN)
    ELSE IF IsInf(a) THEN a
    ELSE IF IsInf(b) THEN Inf(-b.s)
    ELSE LET num == a.s * a.n * b.d - b.s * b.n * a.d
         IN  IF num = 0
             THEN (IF IsZeroF(a) /\ IsZeroF(b) /\ a.s = -1 /\ b.s = 1
                   THEN NegZero ELSE fzero)
             ELSE Fin(Sgn(num), Abs(num), a.d * b.d)

\* a * b
fmul(a, b) ==
    IF IsNaN(a) \/ IsNaN(b) THEN NaN
    ELSE IF (IsInf(a) /\ IsZeroF(b)) \/ (IsZeroF(a) /\ IsInf(b)) THEN NaN
    ELSE IF IsInf(a) \/ IsInf(b) THEN Inf(a.s * b.s)
    ELSE Fin(a.s * b.s, a.n * b.n, a.d * b.d)

\* a / b
fdiv(a, b) ==
    IF IsNaN(a) \/ IsNaN(b) THEN NaN
    ELSE IF (IsInf(a) /\ IsInf(b)) \/ (IsZeroF(a) /\ IsZeroF(b)) THEN NaN
    ELSE IF IsInf(a) \/ IsZeroF(b) THEN Inf(a.s * b.s)
    ELSE IF IsInf(b) THEN Fin(a.s * b.s, 0, 1)
    ELSE Fin(a.s * b.s, a.n * b.d, a.d * b.n)

\* a == b of F: NaN equals nothing, the two zeros are equal
feq(a, b) ==
    /\ ~IsNaN(a)
    /\ ~IsNaN(b)
    /\ \/ a = b
       \/ IsZeroF(a) /\ IsZeroF(b)

\* a < b of F
flt(a, b) ==
    /\ ~IsNaN(a)
    /\ ~IsNaN(b)
    /\ ~feq(a, b)
    /\ IF IsInf(a) THEN a.s = -1
       ELSE IF IsInf(b) THEN b.s = 1
       ELSE a.s * a.n * b.d < b.s * b.n * a.d

(***************************************************************************)
(* Display of F ("{}"): integral values print without a fraction, the sign *)
(* first.  Only integral and special values are displayed in this model.   *)
(***************************************************************************)
DigitStr(i) ==
    CASE i = 0 -> "0" [] i = 1 -> "1" [] i = 2 -> "2" [] i = 3 -> "3"
      [] i = 4 -> "4" [] i = 5 -> "5" [] i = 6 -> "6" [] i = 7 -> "7"
      [] i = 8 -> "8" [] OTHER -> "9"

RECURSIVE NatStr(_)
NatStr(i) == IF i < 10 THEN DigitStr(i) ELSE NatStr(i \div 10) \o DigitStr(i % 10)

NumStr(a) ==
    IF IsNaN(a) THEN "NaN"
    ELSE (IF a.s = -1 THEN "-" ELSE "") \o (IF IsInf(a) THEN "inf" ELSE NatStr(a.n))

(***************************************************************************)
(* struct Dual<F> and its operations.                                      *)
(***************************************************************************)
new(re, deriv) == [dual |-> deriv, real |-> re]

real(self) == self.real

derivative(self) == self.dual

\* #[derive(PartialEq)]: both fields equal under F's ==
DualEq(a, b) == feq(a.real, b.real) /\ feq(a.dual, b.dual)

\* mutant: the additive identity seeded like a variable
zero_seeded == new(fzero, fone)

zero == new(fzero, fzero)

is_zero(self) == IsZeroF(self.real) /\ IsZeroF(self.dual)

one == new(fone, fone)

add(self, other) == new(fadd(self.real, other.real), fadd(self.dual, other.dual))

\* mutant: the dual components added instead of subtracted
sub_adds_dual(self, other) ==
    new(fsub(self.real, other.real), fadd(self.dual, other.dual))

sub(self, other) == new(fsub(self.real, other.real), fsub(self.dual, other.dual))

\* mutant: only the real component negated
neg_keeps_dual(self) == new(fneg(self.real), self.dual)

neg(self) == new(fneg(self.real), fneg(self.dual))

\* mutant: the product rule without its second term
mul_drops_term(self, other) ==
    new(fmul(self.real, other.real), fmul(self.real, other.dual))

mul(self, other) ==
    new(fmul(self.real, other.real),
        fadd(fmul(self.real, other.dual), fmul(self.dual, other.real)))

\* mutant: the quotient rule with the terms of the numerator added
div_adds_terms(self, other) ==
    new(fdiv(self.real, other.real),
        fdiv(fadd(fmul(self.dual, other.real), fmul(self.real, other.dual)),
             fmul(other.real, other.real)))

\* mutant: the quotient rule without the square of the denominator
div_unsquared(self, other) ==
    new(fdiv(self.real, other.real),
        fdiv(fsub(fmul(self.dual, other.real), fmul(self.real, other.dual)),
             other.real))

\* mutant: a division by zero answered with zero
div_guarded(self, other) ==
    IF IsZeroF(other.real)
    THEN new(fzero, fzero)
    ELSE new(fdiv(self.real, other.real),
             fdiv(fsub(fmul(self.dual, other.real), fmul(self.real, other.dual)),
                  fmul(other.real, other.real)))

div(self, other) ==
    new(fdiv(self.real, other.real),
        fdiv(fsub(fmul(self.dual, other.real), fmul(self.real, other.dual)),
             fmul(other.real, other.real)))

\* mutant: the scalar lifted as a constant
from_constant(re) == new(re, fzero)

from(re) == new(re, fone)

fmt(self) ==
    IF flt(self.real, fzero)
    THEN NumStr(self.real) \o "-" \o NumStr(fsub(fzero, self.dual)) \o "ε"
    ELSE NumStr(self.real) \o "+" \o NumStr(self.dual) \o "ε"

(***************************************************************************)
(* The caller of the algebra: two operands x and y, each made by one of    *)
(* the constructors, and the result z of the last call.                    *)
(***************************************************************************)
Ints == (0 - MaxNeg) .. MaxInt

Scalars == {FromInt(i) : i \in Ints} \cup {NegZero, Inf(1), Inf(-1), NaN}

Init ==
    /\ \E r \in Scalars, d \in Scalars :
          /\ x = new(r, d)
          /\ xsrc = <<"new">>
    /\ \E r \in Scalars, d \in Scalars :
          /\ y = new(r, d)
          /\ ysrc = <<"new">>
    /\ z = y
    /\ op = "new"
    /\ out = ""
    /\ v = 0
    /\ stack = <<>>
    /\ nodes = 0

\* a constructor call whose value becomes the operand x or y; the caller
\* builds its operands before it applies the operators to them
Load(val, src, name) ==
    /\ op \in {"new", "zero", "one", "from"}
    /\ \/ x' = val /\ xsrc' = src /\ UNCHANGED <<y, ysrc>>
       \/ y' = val /\ ysrc' = src /\ UNCHANGED <<x, xsrc>>
    /\ z' = val
    /\ op' = name
    /\ out' = ""
    /\ UNCHANGED <<v, stack, nodes>>

Zero == Load(zero, <<"zero">>, "zero")

One == Load(one, <<"one">>, "one")

From == \E s \in Scalars : Load(from(s), <<"from", s>>, "from")

\* an operator call: the operands are passed by value, the result is new
Call(val, name) ==
    /\ z' = val
    /\ op' = name
    /\ out' = ""
    /\ UNCHANGED <<x, y, xsrc, ysrc, v, stack, nodes>>

Add == Call(add(x, y), "add")

Sub == Call(sub(x, y), "sub")

Neg == Call(neg(x), "neg")

Mul == Call(mul(x, y), "mul")

Div == Call(div(x, y), "div")

\* (x * y) / y: the product just computed is divided by y
DivProduct ==
    /\ op = "mul"
    /\ Call(div(z, y), "muldiv")

Fmt ==
    /\ out' = fmt(x)
    /\ op' = "fmt"
    /\ UNCHANGED <<x, y, xsrc, ysrc, z, v, stack, nodes>>

Next ==
    \/ Zero
    \/ One
    \/ From
    \/ Add
    \/ Sub
    \/ Neg
    \/ Mul
    \/ Div
    \/ DivProduct
    \/ Fmt

Spec == Init /\ [][Next]_vars

(***************************************************************************)
(* The caller evaluating an expression in one variable, in postfix order:  *)
(* the variable is seeded as new(v, 1), a constant c is new(c, 0), and the *)
(* operators of Dual combine the operands.  Each entry of the stack holds  *)
(* the expression the caller wrote and the dual number it evaluated to.    *)
(***************************************************************************)
Coefs == (0 - MaxCoef) .. MaxCoef

InitExpr ==
    /\ x = zero
    /\ y = zero
    /\ xsrc = <<"zero">>
    /\ ysrc = <<"zero">>
    /\ z = zero
    /\ op = "zero"
    /\ out = ""
    /\ v \in Coefs
    /\ stack = <<>>
    /\ nodes = 0

Push(e, val) ==
    /\ nodes < MaxNodes
    /\ Len(stack) < MaxStack
    /\ stack' = Append(stack, [expr |-> e, val |-> val])
    /\ nodes' = nodes + 1
    /\ UNCHANGED <<x, y, xsrc, ysrc, z, op, out, v>>

PushVar == Push([t |-> "var"], new(FromInt(v), fone))

PushConst == \E c \in Coefs : Push([c |-> c, t |-> "const"], new(FromInt(c), fzero))

\* the two operands on top of the stack, the right one topmost
Lhs == stack[Len(stack) - 1]

Rhs == stack[Len(stack)]

Binary(name, val) ==
    /\ nodes < MaxNodes
    /\ Len(stack) >= 2
    /\ stack' = Append(SubSeq(stack, 1, Len(stack) - 2),
                       [expr |-> [l |-> Lhs.expr, r |-> Rhs.expr, t |-> name],
                        val |-> val])
    /\ nodes' = nodes + 1
    /\ UNCHANGED <<x, y, xsrc, ysrc, z, op, out, v>>

ExprAdd == Len(stack) >= 2 /\ Binary("add", add(Lhs.val, Rhs.val))

ExprSub == Len(stack) >= 2 /\ Binary("sub", sub(Lhs.val, Rhs.val))

ExprMul == Len(stack) >= 2 /\ Binary("mul", mul(Lhs.val, Rhs.val))

ExprNeg ==
    /\ nodes < MaxNodes
    /\ Len(stack) >= 1
    /\ stack' = [stack EXCEPT ![Len(stack)] =
                    [expr |-> [a |-> Rhs.expr, t |-> "neg"], val |-> neg(Rhs.val)]]
    /\ nodes' = nodes + 1
    /\ UNCHANGED <<x, y, xsrc, ysrc, z, op, out, v>>

NextExpr ==
    \/ PushVar
    \/ PushConst
    \/ ExprAdd
    \/ ExprSub
    \/ ExprMul
    \/ ExprNeg

SpecExpr == InitExpr /\ [][NextExpr]_vars

(***************************************************************************)
(* Reference calculus for the properties: polynomials with integer         *)
(* coefficients (p[i] is the coefficient of degree i - 1).                 *)
(***************************************************************************)
Coef(p, i) == IF i >= 1 /\ i <= Len(p) THEN p[i] ELSE 0

MaxOf(a, b) == IF a > b THEN a ELSE b

PolyAdd(p, q) == [i \in 1 .. MaxOf(Len(p), Len(q)) |-> Coef(p, i) + Coef(q, i)]

PolyNeg(p) == [i \in 1 .. Len(p) |-> 0 - p[i]]

RECURSIVE Conv(_, _, _, _)
Conv(p, q, i, j) ==
    IF j > i THEN 0 ELSE Coef(p, j) * Coef(q, i - j + 1) + Conv(p, q, i, j + 1)

PolyMul(p, q) == [i \in 1 .. (Len(p) + Len(q) - 1) |-> Conv(p, q, i, 1)]

PolyDeriv(p) == [i \in 1 .. (Len(p) - 1) |-> i * p[i + 1]]

RECURSIVE PolyEval(_, _)
PolyEval(p, t) == IF p = <<>> THEN 0 ELSE Head(p) + t * PolyEval(Tail(p), t)

RECURSIVE PolyOf(_)
PolyOf(e) ==
    CASE e.t = "var" -> <<0, 1>>
      [] e.t = "const" -> <<e.c>>
      [] e.t = "add" -> PolyAdd(PolyOf(e.l), PolyOf(e.r))
      [] e.t = "sub" -> PolyAdd(PolyOf(e.l), PolyNeg(PolyOf(e.r)))
      [] e.t = "mul" -> PolyMul(PolyOf(e.l), PolyOf(e.r))
      [] OTHER -> PolyNeg(PolyOf(e.a))

Int2(a, b) == new(FromInt(a), FromInt(b))

IsIntDual(a) == IsInt(a.real) /\ IsInt(a.dual)

NoNaN(a) == ~IsNaN(a.real) /\ ~IsNaN(a.dual)

InfOrNaN(a) == IsInf(a) \/ IsNaN(a)

fabs(a) == IF IsNaN(a) THEN NaN ELSE [a EXCEPT !.s = 1]

\* C1: every expression built from +, binary -, unary - and * over the seeded
\* variable new(v, 1) and constants new(c, 0) evaluates to a dual number whose
\* real() is the value of the expression at v and whose derivative() is the
\* first derivative of the expression at v, computed from the expression's
\* polynomial.
C1_ExpressionDerivative ==
    \A i \in 1 .. Len(stack) :
        LET p == PolyOf(stack[i].expr)
        IN  /\ feq(real(stack[i].val), FromInt(PolyEval(p, v)))
            /\ feq(derivative(stack[i].val), FromInt(PolyEval(PolyDeriv(p), v)))

\* C1 witness: (v * v) - v has been evaluated at v = 1: value 0, derivative 1.
C1_Witness ==
    /\ v = 1
    /\ Len(stack) = 1
    /\ stack[1].expr = [l |-> [l |-> [t |-> "var"], r |-> [t |-> "var"], t |-> "mul"],
                        r |-> [t |-> "var"],
                        t |-> "sub"]
    /\ stack[1].val = Int2(0, 1)

\* C2: x * y has real = a*b and dual = a'*b + a*b' (product rule), for all
\* operands; on integers this is the integer product rule, and
\* new(3, 4) * new(1, 2) == new(3, 10).
C2_ProductRule ==
    op = "mul" =>
        /\ z = new(fmul(x.real, y.real),
                   fadd(fmul(x.dual, y.real), fmul(x.real, y.dual)))
        /\ (IsIntDual(x) /\ IsIntDual(y)) =>
              DualEq(z, Int2(IntOf(x.real) * IntOf(y.real),
                             IntOf(x.dual) * IntOf(y.real)
                               + IntOf(x.real) * IntOf(y.dual)))
        /\ (x = Int2(3, 4) /\ y = Int2(1, 2)) => DualEq(z, Int2(3, 10))

\* C2 witness: new(3, 4) * new(1, 2) has been computed and is new(3, 10).
C2_Witness == op = "mul" /\ x = Int2(3, 4) /\ y = Int2(1, 2) /\ z = Int2(3, 10)

\* C3: for b != 0, x / y has real = a/b and dual = (a'*b - a*b') / (b*b)
\* (quotient rule); on integers the quotient times b is a and the dual times
\* b*b is a'*b - a*b', and new(3, 4) / new(1, 2) == new(3, -2).
C3_QuotientRule ==
    (op = "div" /\ ~feq(y.real, fzero)) =>
        /\ z = new(fdiv(x.real, y.real),
                   fdiv(fsub(fmul(x.dual, y.real), fmul(x.real, y.dual)),
                        fmul(y.real, y.real)))
        /\ (IsIntDual(x) /\ IsIntDual(y)) =>
              LET a == IntOf(x.real)
                  da == IntOf(x.dual)
                  b == IntOf(y.real)
                  db == IntOf(y.dual)
              IN  /\ IsFin(z.real)
                  /\ IsFin(z.dual)
                  /\ z.real.s * z.real.n * b = a * z.real.d
                  /\ z.dual.s * z.dual.n * b * b = (da * b - a * db) * z.dual.d
        /\ (x = Int2(3, 4) /\ y = Int2(1, 2)) => DualEq(z, Int2(3, -2))

\* C3 witness: new(3, 4) / new(1, 2) has been computed and is new(3, -2).
C3_Witness == op = "div" /\ x = Int2(3, 4) /\ y = Int2(1, 2) /\ z = Int2(3, -2)

\* C4 as stated: for all x and y, x - y == x + (-y) and -x == zero() - x under
\* the type's equality.
C4_NegationConsistency ==
    /\ op = "sub" => DualEq(z, add(x, neg(y)))
    /\ op = "neg" => DualEq(z, sub(zero, x))

\* C4 amended: x - y == x + (-y) whenever no component of x - y is NaN, and
\* -x == zero() - x whenever no component of x is NaN.
C4_NegationConsistencyNoNaN ==
    /\ (op = "sub" /\ NoNaN(z)) => DualEq(z, add(x, neg(y)))
    /\ (op = "neg" /\ NoNaN(x)) => DualEq(z, sub(zero, x))

\* C4 witness: new(3, 4) - new(2, -1) has been computed and is new(1, 5).
C4_Witness == op = "sub" /\ x = Int2(3, 4) /\ y = Int2(2, -1) /\ z = Int2(1, 5)

\* C5 as stated: for all x, x + zero() == x and zero() + x == x, and zero() is
\* the dual number with real = 0 and dual = 0.
C5_AdditiveIdentity ==
    /\ op = "zero" => z = Int2(0, 0)
    /\ (op = "add" /\ ysrc = <<"zero">>) => DualEq(z, x)
    /\ (op = "add" /\ xsrc = <<"zero">>) => DualEq(z, y)

\* C5 amended: zero() is the dual number with real = 0 and dual = 0, and
\* x + zero() == x and zero() + x == x for every x with no NaN component.
C5_AdditiveIdentityNoNaN ==
    /\ op = "zero" => z = Int2(0, 0)
    /\ (op = "add" /\ ysrc = <<"zero">> /\ NoNaN(x)) => DualEq(z, x)
    /\ (op = "add" /\ xsrc = <<"zero">> /\ NoNaN(y)) => DualEq(z, y)

\* C5 witness: new(3, 4) + zero() has been computed and is new(3, 4).
C5_Witness == op = "add" /\ ysrc = <<"zero">> /\ x = Int2(3, 4) /\ z = Int2(3, 4)

\* C6 as stated (for integer operands): one() is the dual number with
\* real = 1 and dual = 1, and x * one() == x and one() * x == x.
C6_MultiplicativeIdentity ==
    /\ op = "one" => z = Int2(1, 1)
    /\ (op = "mul" /\ ysrc = <<"one">> /\ IsIntDual(x)) => DualEq(z, x)
    /\ (op = "mul" /\ xsrc = <<"one">> /\ IsIntDual(y)) => DualEq(z, y)

\* C7 as stated: Display renders "{real}+{dual}ε" when real >= 0 and
\* "{real}-{|dual|}ε" when real < 0, for every value of dual.
C7_Display ==
    op = "fmt" =>
        /\ flt(x.real, fzero) =>
              out = NumStr(x.real) \o "-" \o NumStr(fabs(x.dual)) \o "ε"
        /\ (flt(fzero, x.real) \/ feq(x.real, fzero)) =>
              out = NumStr(x.real) \o "+" \o NumStr(x.dual) \o "ε"

\* C8: from(s) is new(s, 1) for every scalar s, so from(s).real() is s and
\* from(s).derivative() is 1; from(c) * new(v, 1) has derivative c + v, which
\* for v != 0 is not the derivative c of new(c, 0) * new(v, 1).
C8_FromSeeds ==
    /\ op = "from" => (derivative(z) = fone /\ (z = x \/ z = y))
    /\ xsrc[1] = "from" => (x = new(xsrc[2], fone) /\ real(x) = xsrc[2])
    /\ ysrc[1] = "from" => (y = new(ysrc[2], fone) /\ real(y) = ysrc[2])
    /\ (/\ op = "mul"
        /\ xsrc[1] = "from"
        /\ ysrc = <<"new">>
        /\ y.dual = fone
        /\ IsInt(x.real)
        /\ IsInt(y.real)) =>
          /\ feq(derivative(z), FromInt(IntOf(x.real) + IntOf(y.real)))
          /\ feq(derivative(mul(new(x.real, fzero), y)), x.real)
          /\ IntOf(y.real) # 0 => ~feq(derivative(z), x.real)

\* C8 witness: from(3) * new(2, 1) has been computed; its derivative is 5, not 3.
C8_Witness ==
    /\ op = "mul"
    /\ xsrc = <<"from", FromInt(3)>>
    /\ ysrc = <<"new">>
    /\ y = Int2(2, 1)
    /\ z = Int2(6, 5)

\* C9: a division by a dual number whose real component is 0 returns a dual
\* number whose real and dual components are each infinite or NaN, and
\* leaves the operands unchanged.
C9_DivisionByZero ==
    [][(Div /\ IsZeroF(y.real)) =>
          /\ InfOrNaN(z'.real)
          /\ InfOrNaN(z'.dual)
          /\ x' = x
          /\ y' = y]_vars

\* C9 witness: new(1, 1) / new(0, 0) has been computed: real is infinite, dual
\* is NaN.
C9_Witness ==
    /\ op = "div"
    /\ x = Int2(1, 1)
    /\ y = Int2(0, 0)
    /\ IsInf(z.real)
    /\ IsNaN(z.dual)

\* C10: for integer operands with y.real() != 0, (x * y) / y == x in both
\* components.
C10_DivInvertsMul ==
    (op = "muldiv" /\ IsIntDual(x) /\ IsIntDual(y) /\ ~IsZeroF(y.real)) =>
        DualEq(z, x)

\* C10 witness: (new(3, 4) * new(2, -1)) / new(2, -1) has been computed and is
\* new(3, 4).
C10_Witness == op = "muldiv" /\ x = Int2(3, 4) /\ y = Int2(2, -1) /\ z = Int2(3, 4)

====
